---- MODULE Spec2Model ----
(***************************************************************************)
(* EventLoop of timer.py: a private asyncio event loop that the host       *)
(* (Blender) pumps one generation at a time through step().                *)
(*                                                                         *)
(* The host thread is one process whose position is pc; the threads of the *)
(* default executor are the WorkerDone action.  The asyncio loop is        *)
(* modelled by what BaseEventLoop does: call_soon appends a handle to      *)
(* _ready, _run_once runs the ntodo handles that were queued when the      *)
(* iteration began, stop() sets _stopping, run_forever leaves after the    *)
(* iteration in which _stopping was set.  A task whose coroutine raised    *)
(* keeps the exception; CPython releases the task as soon as its handle is *)
(* dropped, and Task.__del__ then calls the loop's exception handler, so   *)
(* the handler runs inside the generation, right after the faulting        *)
(* segment.                                                                *)
(***************************************************************************)
EXTENDS Integers, Sequences, FiniteSets, TLC

\* ---- bounds of the model
MaxLoops == 2
MaxActions == 2

\* Behaviours of the opaque coroutines given to dispatch():
\*   ok    completes in its first segment
\*   fault raises in its first segment
\*   wait  awaits loop.run_in_executor(None, f), then completes; it hangs
\*         for as long as the worker has not finished, possibly for ever
Kinds == {"ok", "fault", "wait"}

None == 0

VARIABLES
    _loop,            \* EventLoop._loop: None or the id of the owned loop
    _operator,        \* EventLoop._operator: None or an adapter
    _stop_next_step,  \* EventLoop._stop_next_step: "None", "True" or "False"
    loops,            \* the asyncio loops created so far, by id
    actions,          \* the coroutines given to dispatch(), by id
    reports,          \* the calls operator.report received, in order
    pc,               \* position of the host thread
    ntodo,            \* _run_once's local ntodo
    \* ---- observers (never read by the program)
    raised,           \* the exception the last host call raised, or "none"
    lifecycle,        \* the most recent of start() / stop() to be called
    prevLifecycle,    \* lifecycle when the most recent start() was called,
                      \* kept until the next call of stop()
    entry,            \* step(): the actions whose first segment was queued at entry
    entryEmpty,       \* step(): _ready was empty at entry, before call_soon
    reportsAtEntry,   \* step(): Len(reports) at entry
    iterations,       \* step(): the iterations of _run_once begun
    genRan,           \* step(): the actions that ran a segment in this call
    genFaulted,       \* step(): the actions that raised in this call
    genWoken,         \* step(): the actions whose next segment was queued in this call
    stopCalls,        \* the calls of stop() made in the last host call so far
    stoppedUpTo       \* step(): Len(actions) at the stop() that the host called
                      \* just before this call (0 if its last call was another)

prog == <<_loop, _operator, _stop_next_step, loops, actions, reports, pc, ntodo>>
genVars == <<entry, entryEmpty, reportsAtEntry, iterations, genRan, genFaulted,
             genWoken>>
vars == <<prog, raised, lifecycle, prevLifecycle, genVars, stopCalls, stoppedUpTo>>

\* The host adapters (bpy operators) the host may hand to start(): operators
\* are opaque identities, so a call is given either the operator the
\* scheduler already holds or one it has not seen before
Adapters == {x \in {_operator, Len(loops) + 1} : x # None}

\* ---- asyncio handles
Handle(cb, t) == [cb |-> cb, task |-> t]

\* asyncio.new_event_loop() / ProactorEventLoop(): a fresh, open, idle loop
\* (op records the operator start() stored for the loop at line 41; handler
\* tells whether handle_exception was installed on it, else asyncio's default
\* handler is in place, which only logs)
new_event_loop(op) ==
    [closed |-> FALSE, _ready |-> <<>>, _stopping |-> FALSE, op |-> op,
     handler |-> FALSE]

\* loop.set_exception_handler(handle_exception), line 58
set_exception_handler(l) == [l EXCEPT !.handler = TRUE]

\* The steps of start() that can raise: the allocation of the loop (lines 34
\* and 36: OSError when no selector or socket pair can be made) and line 39,
\* asyncio.get_child_watcher().attach_loop (NotImplementedError under the
\* win32 event loop policies, which have no child watcher)
StartFailures == {"alloc", "watcher"}

\* loop.call_soon(cb): append to the loop's _ready deque
call_soon(ls, l, h) == [ls EXCEPT ![l]._ready = Append(@, h)]

\* Faulty variant of Truthy: the flag is compared with False, so None counts as set
TruthyNotFalse(v) == v # "False"

\* Python truth value of _stop_next_step
Truthy(v) == v = "True"

\* EventLoop.running
running == _loop # None /\ ~loops[_loop].closed

\* timer.py never binds the global name `logger` (no import, no assignment):
\* evaluating it in stop() raises NameError
logger_defined == FALSE

Init ==
    /\ _loop = None
    /\ _operator = None
    /\ _stop_next_step = "None"
    /\ loops = <<>>
    /\ actions = <<>>
    /\ reports = <<>>
    /\ pc = "idle"
    /\ ntodo = 0
    /\ raised = "none"
    /\ lifecycle = "none"
    /\ prevLifecycle = "none"
    /\ entry = {}
    /\ entryEmpty = TRUE
    /\ reportsAtEntry = 0
    /\ iterations = 0
    /\ genRan = {}
    /\ genFaulted = {}
    /\ genWoken = {}
    /\ stopCalls = 0
    /\ stoppedUpTo = 0

\* the observers of step() are kept only while the host is inside step()
genReset ==
    /\ entry' = {}
    /\ entryEmpty' = TRUE
    /\ reportsAtEntry' = 0
    /\ iterations' = 0
    /\ genRan' = {}
    /\ genFaulted' = {}
    /\ genWoken' = {}

\* Faulty variant of Start: start() keeps the loop it already owns
StartReuse(op) ==
    /\ pc = "idle"
    /\ op \in Adapters
    /\ Len(loops) < MaxLoops
    /\ IF _loop = None
       THEN /\ loops' = Append(loops, set_exception_handler(new_event_loop(op)))
            /\ _loop' = Len(loops) + 1
       ELSE UNCHANGED <<loops, _loop>>
    /\ _operator' = op
    /\ raised' = "none"
    /\ lifecycle' = "start"
    /\ prevLifecycle' = lifecycle
    /\ stopCalls' = 0
    /\ UNCHANGED <<_stop_next_step, actions, reports, pc, ntodo, genVars, stoppedUpTo>>

\* Faulty variant of Start: an operator already stored is kept
StartKeepsAdapter(op) ==
    /\ pc = "idle"
    /\ op \in Adapters
    /\ Len(loops) < MaxLoops
    /\ loops' = Append(loops, set_exception_handler(new_event_loop(
                    IF _operator # None THEN _operator ELSE op)))
    /\ _loop' = Len(loops) + 1
    /\ _operator' = IF _operator # None THEN _operator ELSE op
    /\ raised' = "none"
    /\ lifecycle' = "start"
    /\ prevLifecycle' = lifecycle
    /\ stopCalls' = 0
    /\ UNCHANGED <<_stop_next_step, actions, reports, pc, ntodo, genVars, stoppedUpTo>>

\* EventLoop.start(operator)
Start(op) ==
    /\ pc = "idle"
    /\ op \in Adapters
    /\ Len(loops) < MaxLoops
    /\ loops' = Append(loops, set_exception_handler(new_event_loop(op)))
    /\ _loop' = Len(loops) + 1
    /\ _operator' = op
    /\ raised' = "none"
    /\ lifecycle' = "start"
    /\ prevLifecycle' = lifecycle
    /\ stopCalls' = 0
    /\ UNCHANGED <<_stop_next_step, actions, reports, pc, ntodo, genVars, stoppedUpTo>>

\* EventLoop.start(operator) raises part-way: nothing is undone.  A failure at
\* line 39 comes after line 36 has stored the new loop and before line 41
\* stores the operator and line 58 installs the handler.
StartFails(at) ==
    /\ pc = "idle"
    /\ at \in StartFailures
    /\ Len(loops) < MaxLoops
    /\ IF at = "alloc"
       THEN /\ raised' = "OSError"
            /\ UNCHANGED <<loops, _loop>>
       ELSE /\ loops' = Append(loops, new_event_loop(None))
            /\ _loop' = Len(loops) + 1
            /\ raised' = "NotImplementedError"
    /\ stopCalls' = 0
    /\ UNCHANGED <<_operator, _stop_next_step, actions, reports, pc, ntodo,
                   lifecycle, prevLifecycle, genVars, stoppedUpTo>>

\* EventLoop.stop(): the body, as called by the host and by step()
stop ==
    IF ~logger_defined
    THEN /\ raised' = "NameError"
         /\ UNCHANGED <<_loop, _operator, loops>>
    ELSE IF _loop = None
    THEN /\ raised' = "AttributeError"
         /\ UNCHANGED <<_loop, _operator, loops>>
    ELSE /\ loops' = [loops EXCEPT ![_loop].closed = TRUE]
         /\ _loop' = None
         /\ _operator' = None
         /\ raised' = "none"

\* the host calls EventLoop.stop()
Stop ==
    /\ pc = "idle"
    /\ stop
    /\ lifecycle' = "stop"
    /\ stopCalls' = 1
    /\ UNCHANGED stoppedUpTo
    /\ prevLifecycle' = "none"
    /\ UNCHANGED <<_stop_next_step, actions, reports, pc, ntodo, genVars>>

\* Faulty variant of Dispatch: the coroutine is wrapped but never scheduled on the loop
DispatchNoSchedule(k) ==
    /\ pc = "idle"
    /\ Len(actions) < MaxActions
    /\ IF running
       THEN /\ actions' = Append(actions,
                [kind |-> k, loop |-> _loop, state |-> "ready", seg |-> 1])
       ELSE /\ actions' = Append(actions,
                [kind |-> k, loop |-> None, state |-> "dropped", seg |-> 1])
    /\ raised' = "none"
    /\ stopCalls' = 0
    /\ UNCHANGED <<_loop, _operator, _stop_next_step, reports, pc, ntodo,
                   lifecycle, prevLifecycle, genVars, loops, stoppedUpTo>>

\* EventLoop.dispatch(action)
Dispatch(k) ==
    /\ pc = "idle"
    /\ Len(actions) < MaxActions
    /\ IF running
       THEN /\ actions' = Append(actions,
                [kind |-> k, loop |-> _loop, state |-> "ready", seg |-> 1])
            /\ loops' = call_soon(loops, _loop, Handle("task_step", Len(actions) + 1))
       ELSE /\ actions' = Append(actions,
                [kind |-> k, loop |-> None, state |-> "dropped", seg |-> 1])
            /\ UNCHANGED loops
    /\ raised' = "none"
    /\ stopCalls' = 0
    /\ UNCHANGED <<_loop, _operator, _stop_next_step, reports, pc, ntodo,
                   lifecycle, prevLifecycle, genVars, stoppedUpTo>>

\* EventLoop.report(severity, message): pass-through to the stored operator
report(severity, t) ==
    IF _operator # None
    THEN Append(reports, [adapter |-> _operator, severity |-> severity,
                          task |-> t, loop |-> _loop, running |-> running])
    ELSE reports

\* Faulty variant of handle_exception: the handler calls self.stop() itself
handle_exception_stops(t) ==
    /\ reports' = report("ERROR", t)
    /\ _stop_next_step' = "True"
    /\ stopCalls' = stopCalls + 1

\* handle_exception(loop, context), the closure start() installs
handle_exception(t) ==
    /\ reports' = report("ERROR", t)
    /\ _stop_next_step' = "True"
    /\ UNCHANGED stopCalls

\* the actions of the owned loop that were dispatched and have not run yet
FirstSegmentsQueued ==
    {t \in 1..Len(actions) :
        /\ actions[t].loop = _loop
        /\ actions[t].state = "ready"
        /\ actions[t].seg = 1}

\* Faulty variant of StepEnterOpen: step() forgets to queue loop.stop
StepEnterOpenNoStop ==
    /\ pc' = "run_forever"
    /\ raised' = "none"
    /\ entry' = FirstSegmentsQueued
    /\ entryEmpty' = (Len(loops[_loop]._ready) = 0)
    /\ reportsAtEntry' = Len(reports)
    /\ iterations' = 0
    /\ genRan' = {}
    /\ genFaulted' = {}
    /\ genWoken' = {}
    /\ UNCHANGED loops

\* EventLoop.step() on an open loop: line 66, self._loop.call_soon(self._loop.stop),
\* and the entry of run_forever()
StepEnterOpen ==
    /\ loops' = call_soon(loops, _loop, Handle("stop", None))
    /\ pc' = "run_forever"
    /\ raised' = "none"
    /\ entry' = FirstSegmentsQueued
    /\ entryEmpty' = (Len(loops[_loop]._ready) = 0)
    /\ reportsAtEntry' = Len(reports)
    /\ iterations' = 0
    /\ genRan' = {}
    /\ genFaulted' = {}
    /\ genWoken' = {}

\* Faulty variant of StepEnter: step() returns at once when the scheduler is not running
StepEnterGuarded ==
    /\ pc = "idle"
    /\ stopCalls' = 0
    /\ IF ~running
       THEN /\ raised' = "none"
            /\ UNCHANGED <<loops, pc, genVars>>
       ELSE StepEnterOpen
    /\ UNCHANGED <<_loop, _operator, _stop_next_step, actions, reports, ntodo,
                   lifecycle, prevLifecycle>>
    /\ stoppedUpTo' = IF pc' # "idle" /\ stopCalls > 0 THEN Len(actions) ELSE 0

\* the host calls EventLoop.step(): line 66
StepEnter ==
    /\ pc = "idle"
    /\ stopCalls' = 0
    /\ IF _loop = None
       THEN \* None has no attribute call_soon
            /\ raised' = "AttributeError"
            /\ UNCHANGED <<loops, pc, genVars>>
       ELSE IF loops[_loop].closed
       THEN \* call_soon on a closed loop
            /\ raised' = "RuntimeError"
            /\ UNCHANGED <<loops, pc, genVars>>
       ELSE StepEnterOpen
    /\ UNCHANGED <<_loop, _operator, _stop_next_step, actions, reports, ntodo,
                   lifecycle, prevLifecycle>>
    /\ stoppedUpTo' = IF pc' # "idle" /\ stopCalls > 0 THEN Len(actions) ELSE 0

\* Faulty variant of RunOnceBegin: the loop waits for the work in the executor
RunOnceBeginWaits ==
    /\ pc = "run_forever"
    /\ \A t \in 1..Len(actions) :
         actions[t].loop = _loop => actions[t].state # "blocked"
    /\ ntodo' = Len(loops[_loop]._ready)
    /\ pc' = "run_once"
    /\ iterations' = iterations + 1
    /\ UNCHANGED <<_loop, _operator, _stop_next_step, loops, actions, reports,
                   raised, lifecycle, prevLifecycle, entry, entryEmpty,
                   reportsAtEntry, genRan, genFaulted, genWoken, stopCalls,
                   stoppedUpTo>>

\* run_forever(): one iteration of _run_once begins.  With nothing ready and
\* no stop requested the selector blocks until a worker thread wakes the loop.
RunOnceBegin ==
    /\ pc = "run_forever"
    /\ Len(loops[_loop]._ready) > 0 \/ loops[_loop]._stopping
    /\ ntodo' = Len(loops[_loop]._ready)
    /\ pc' = "run_once"
    /\ iterations' = iterations + 1
    /\ UNCHANGED <<_loop, _operator, _stop_next_step, loops, actions, reports,
                   raised, lifecycle, prevLifecycle, entry, entryEmpty,
                   reportsAtEntry, genRan, genFaulted, genWoken, stopCalls,
                   stoppedUpTo>>

\* Task.__step: the coroutine of action t runs up to its next suspension
\* point, its end or its fault; ls is the loops with the handle popped.  The
\* task of a coroutine that raised is released with its handle, and its
\* finalizer calls the loop's exception handler.
task_step(t, ls) ==
    /\ genRan' = genRan \cup {t}
    /\ CASE actions[t].kind = "ok" ->
              /\ \/ /\ actions' = [actions EXCEPT ![t].state = "done"]
                    /\ loops' = ls
                    /\ UNCHANGED genWoken
                 \/ \* the coroutine calls event_loop.dispatch(child) on its way
                    \* (running holds inside run_forever)
                    /\ Len(actions) < MaxActions
                    /\ \E k \in Kinds :
                         actions' = Append([actions EXCEPT ![t].state = "done"],
                             [kind |-> k, loop |-> _loop, state |-> "ready", seg |-> 1])
                    /\ loops' = call_soon(ls, _loop, Handle("task_step", Len(actions) + 1))
                    /\ genWoken' = genWoken \cup {Len(actions) + 1}
              /\ UNCHANGED <<reports, _stop_next_step, genFaulted, stopCalls>>
         [] actions[t].kind = "fault" ->
              /\ actions' = [actions EXCEPT ![t].state = "faulted"]
              /\ loops' = ls
              /\ genFaulted' = genFaulted \cup {t}
              /\ IF loops[_loop].handler
                 THEN handle_exception(t)
                 ELSE UNCHANGED <<reports, _stop_next_step, stopCalls>>
              /\ UNCHANGED genWoken
         [] actions[t].kind = "wait" /\ actions[t].seg = 1 ->
              /\ actions' = [actions EXCEPT ![t].state = "blocked", ![t].seg = 2]
              /\ loops' = ls
              /\ UNCHANGED <<reports, _stop_next_step, genFaulted, genWoken, stopCalls>>
         [] actions[t].kind = "wait" /\ actions[t].seg = 2 ->
              /\ actions' = [actions EXCEPT ![t].state = "done"]
              /\ loops' = ls
              /\ UNCHANGED <<reports, _stop_next_step, genFaulted, genWoken, stopCalls>>

\* _run_once: the next of the ntodo handles is popped and run
RunHandle ==
    /\ pc = "run_once"
    /\ ntodo > 0
    /\ LET h == Head(loops[_loop]._ready)
           ls == [loops EXCEPT ![_loop]._ready = Tail(@)]
       IN  CASE h.cb = "stop" ->
                  /\ loops' = [ls EXCEPT ![_loop]._stopping = TRUE]
                  /\ UNCHANGED <<actions, reports, _stop_next_step, genRan,
                                 genFaulted, genWoken, stopCalls>>
             [] h.cb = "set_future" ->
                  \* the awaited future gets its result and schedules the wakeup
                  \* of its task (and a callback without effect, left out)
                  /\ loops' = call_soon(ls, _loop, Handle("task_step", h.task))
                  /\ actions' = [actions EXCEPT ![h.task].state = "ready"]
                  /\ genWoken' = genWoken \cup {h.task}
                  /\ UNCHANGED <<reports, _stop_next_step, genRan, genFaulted,
                                 stopCalls>>
             [] h.cb = "task_step" -> task_step(h.task, ls)
    /\ ntodo' = ntodo - 1
    /\ UNCHANGED <<_loop, _operator, pc, raised, lifecycle, prevLifecycle,
                   entry, entryEmpty, reportsAtEntry, iterations, stoppedUpTo>>

\* Faulty variant of RunOnceEnd: run_forever leaves only once the queue is empty
RunOnceEndDrains ==
    /\ pc = "run_once"
    /\ ntodo = 0
    /\ IF loops[_loop]._stopping /\ loops[_loop]._ready = <<>>
       THEN /\ loops' = [loops EXCEPT ![_loop]._stopping = FALSE]
            /\ pc' = "step_check"
       ELSE /\ pc' = "run_forever"
            /\ UNCHANGED loops
    /\ UNCHANGED <<_loop, _operator, _stop_next_step, actions, reports, ntodo,
                   raised, lifecycle, prevLifecycle, genVars, stopCalls, stoppedUpTo>>

\* _run_once is over: run_forever leaves if stop() was called, else iterates
RunOnceEnd ==
    /\ pc = "run_once"
    /\ ntodo = 0
    /\ IF loops[_loop]._stopping
       THEN /\ loops' = [loops EXCEPT ![_loop]._stopping = FALSE]
            /\ pc' = "step_check"
       ELSE /\ pc' = "run_forever"
            /\ UNCHANGED loops
    /\ UNCHANGED <<_loop, _operator, _stop_next_step, actions, reports, ntodo,
                   raised, lifecycle, prevLifecycle, genVars, stopCalls, stoppedUpTo>>

\* Faulty variant of StepCheck: the flag is cleared after stop() has returned
StepCheckClearsLate ==
    /\ pc = "step_check"
    /\ IF Truthy(_stop_next_step)
       THEN /\ stop
            /\ _stop_next_step' = IF raised' = "none" THEN "False" ELSE _stop_next_step
            /\ lifecycle' = "stop"
            /\ stopCalls' = stopCalls + 1
            /\ prevLifecycle' = "none"
       ELSE /\ raised' = "none"
            /\ UNCHANGED <<_stop_next_step, _loop, _operator, loops, lifecycle,
                           stopCalls, prevLifecycle>>
    /\ pc' = "idle"
    /\ genReset
    /\ stoppedUpTo' = 0
    /\ UNCHANGED <<actions, reports, ntodo>>

\* EventLoop.step(), lines 69-71, and the return to the host
StepCheck ==
    /\ pc = "step_check"
    /\ IF Truthy(_stop_next_step)
       THEN /\ _stop_next_step' = "False"
            /\ stop
            /\ lifecycle' = "stop"
            /\ stopCalls' = stopCalls + 1
            /\ prevLifecycle' = "none"
       ELSE /\ raised' = "none"
            /\ UNCHANGED <<_stop_next_step, _loop, _operator, loops, lifecycle,
                           stopCalls, prevLifecycle>>
    /\ pc' = "idle"
    /\ genReset
    /\ stoppedUpTo' = 0
    /\ UNCHANGED <<actions, reports, ntodo>>

\* Faulty variant of WorkerDone: the worker thread resumes the coroutine itself
WorkerDoneResumes(t) ==
    /\ t \in 1..Len(actions)
    /\ actions[t].state = "blocked"
    /\ actions' = [actions EXCEPT ![t].state = "done"]
    /\ UNCHANGED <<_loop, _operator, _stop_next_step, loops, reports, pc, ntodo,
                   raised, lifecycle, prevLifecycle, genVars, stopCalls, stoppedUpTo>>

\* A thread of the default executor finishes the blocking call of action t and
\* hands the result over with loop.call_soon_threadsafe
WorkerDone(t) ==
    /\ t \in 1..Len(actions)
    /\ actions[t].state = "blocked"
    /\ IF loops[actions[t].loop].closed
       THEN /\ actions' = [actions EXCEPT ![t].state = "lost"]
            /\ UNCHANGED loops
       ELSE /\ actions' = [actions EXCEPT ![t].state = "resolving"]
            /\ loops' = call_soon(loops, actions[t].loop, Handle("set_future", t))
    /\ UNCHANGED <<_loop, _operator, _stop_next_step, reports, pc, ntodo,
                   raised, lifecycle, prevLifecycle, genVars, stopCalls, stoppedUpTo>>

Next ==
    \/ \E op \in 1..MaxLoops : Start(op)
    \/ \E at \in StartFailures : StartFails(at)
    \/ Stop
    \/ \E k \in Kinds : Dispatch(k)
    \/ StepEnter
    \/ RunOnceBegin
    \/ RunHandle
    \/ RunOnceEnd
    \/ StepCheck
    \/ \E t \in 1..MaxActions : WorkerDone(t)

Spec == Init /\ [][Next]_vars

\* ------------------------------------------------------------ claims

startedLast == lifecycle = "start"

\* the owned loop was set up by a start() that returned: handle_exception is
\* installed on it
Started == _loop # None /\ loops[_loop].handler

\* no start() has failed part-way on the owned loop
SetUpWhole == _loop # None => loops[_loop].handler

\* C1: isRunning is true exactly when start() has been called more recently
\* than any stop() (a stop() made by step() after a fault counts); the states
\* a failed start() leaves behind are set apart (C16)
C1_RunningIffStartedLast == SetUpWhole => (running <=> startedLast)

\* the ERROR reports of this step() for the fault of action t
FaultReports(t) ==
    {i \in (reportsAtEntry + 1)..Len(reports) :
        reports[i].task = t /\ reports[i].severity = "ERROR"}

\* C2: when an action faults in a step(), the adapter gets exactly one ERROR
\* report for it, isRunning is true while the handler runs, and isRunning is
\* false when that step() returns
C2_FaultReportedThenStopped ==
    [][(StepCheck /\ Started /\ genFaulted # {}) =>
        /\ \A t \in genFaulted :
             /\ Cardinality(FaultReports(t)) = 1
             /\ \A i \in FaultReports(t) : reports[i].running
        /\ ~running']_vars

\* C3: dispatch(a) before any start() or after any stop() raises nothing,
\* reports nothing, enqueues nothing, and a never runs afterwards
C3_DispatchDroppedUnlessStarted ==
    [][\A k \in Kinds : (Dispatch(k) /\ ~startedLast /\ SetUpWhole) =>
        /\ raised' = "none"
        /\ reports' = reports
        /\ loops' = loops
        /\ actions'[Len(actions')].state = "dropped"]_vars
    /\ [](\A t \in 1..Len(actions) :
            actions[t].state = "dropped" => t \notin genRan)

\* C4: a step() made while RUNNING returns normally to the host, whatever the
\* pending actions do
C4_StepReturnsNormally == [][StepCheck => raised' = "none"]_vars

\* C5 as stated: step() or stop() while not RUNNING is a no-op that raises
\* nothing and leaves the scheduler STOPPED
C5_MisuseIsNoOp ==
    [][((StepEnter \/ Stop) /\ ~running) =>
        (raised' = "none" /\ ~running')]_vars

\* C5 as amended: step() or stop() while not RUNNING raises a fault to the
\* caller and leaves the state of the scheduler unchanged (still STOPPED)
C5_MisuseRaisesStateKept ==
    [][((StepEnter \/ Stop) /\ ~running) =>
        /\ raised' \in {"AttributeError", "NameError", "RuntimeError"}
        /\ UNCHANGED prog
        /\ ~running']_vars

\* C5 witness: a misused step() has raised on the absent loop
C5_Witness == ~running /\ pc = "idle" /\ raised = "AttributeError"

\* C6: after stop() followed by start() the scheduler is like a fresh one that
\* was just started: the queue of its loop is empty and holds no action of an
\* earlier loop later on, the stop flag is not set (a first step() without a
\* fault does not stop it), and reports go to the adapter of that start() only
C6_RestartIsFresh ==
    /\ [][\A op \in 1..MaxLoops : (Start(op) /\ lifecycle = "stop") =>
            /\ running'
            /\ loops'[_loop']._ready = <<>>
            /\ ~loops'[_loop']._stopping
            /\ ~Truthy(_stop_next_step')
            /\ _operator' = op]_vars
    /\ [](running =>
            \A i \in 1..Len(loops[_loop]._ready) :
                LET h == loops[_loop]._ready[i]
                IN  h.cb # "stop" => actions[h.task].loop = _loop)
    /\ [](\A i \in 1..Len(reports) :
            reports[i].adapter = loops[reports[i].loop].op)
    /\ [][(StepCheck /\ prevLifecycle = "stop" /\ genFaulted = {}) =>
            (stopCalls' = 0 /\ running')]_vars

\* C6 witness: a restart after a stop() whose old loop still holds a queued
\* action and whose old adapter got a report
C6_Witness ==
    /\ lifecycle = "start"
    /\ prevLifecycle = "stop"
    /\ _loop = 2
    /\ loops[2]._ready = <<>>
    /\ Len(loops[1]._ready) > 0
    /\ Len(reports) > 0
    /\ loops[2].op # loops[1].op

\* C7: every action dispatched on the owned loop before a step() that
\* completes without suspending has completed when the drain of that step()
\* is over, whatever the dispatch order
C7_ReadyActionsComplete ==
    pc = "step_check" =>
        \A t \in entry : actions[t].kind = "ok" => actions[t].state = "done"

\* C7 witness: two such actions were queued for one step() and both are done
C7_Witness ==
    /\ pc = "step_check"
    /\ \E t1, t2 \in entry :
        /\ t1 # t2
        /\ actions[t1].kind = "ok" /\ actions[t1].state = "done"
        /\ actions[t2].kind = "ok" /\ actions[t2].state = "done"

\* the host thread can take its next step inside step()
HostCanProceed == ENABLED (RunOnceBegin \/ RunHandle \/ RunOnceEnd \/ StepCheck)

\* C8: every step() made after start() returns to the host: the selector never
\* blocks, run_forever makes one iteration of at most the queued handles; and
\* a step() with nothing pending returns normally and leaves the scheduler RUNNING
C8_StepReturns ==
    /\ [](pc # "idle" =>
            /\ HostCanProceed
            /\ iterations <= 1
            /\ ntodo <= Len(loops[_loop]._ready)
            /\ (pc = "run_forever" => iterations = 0))
    /\ [][(StepCheck /\ entryEmpty) =>
            (raised' = "none" /\ running' /\ pc' = "idle")]_vars

\* C8 witness: the drain of a step() with nothing pending is over
C8_Witness == pc = "step_check" /\ entryEmpty /\ iterations = 1 /\ genRan = {}

\* C9: a step() stops the scheduler or reports only if an action faulted: when
\* none did, the actions that ran to their end are done, no report was made,
\* stop() is not called and isRunning is true after step() returns
C9_NoFaultNoStop ==
    [][(StepCheck /\ genFaulted = {}) =>
        /\ \A t \in entry : actions[t].kind = "ok" => actions'[t].state = "done"
        /\ Len(reports') = reportsAtEntry
        /\ stopCalls' = 0
        /\ raised' = "none"
        /\ running']_vars

\* C9 witness: the drain of a step() that ran a successful action is over
C9_Witness ==
    /\ pc = "step_check"
    /\ genFaulted = {}
    /\ \E t \in entry : actions[t].kind = "ok" /\ actions[t].state = "done"

C11_TwoFaultsOneStop ==
    /\ [](pc \in {"run_forever", "run_once", "step_check"} =>
            (Cardinality(genFaulted) >= 2 /\ Started => Truthy(_stop_next_step)))
    /\ [][(StepCheck /\ Started /\ Cardinality(genFaulted) >= 2) =>
            (stopCalls' = 1 /\ ~running')]_vars

\* C12: the stop request is cleared when consumed: the flag is not set whenever
\* the host is outside step(), nor in any state in which the scheduler is
\* STOPPED
C12_FlagClearedOutsideStep ==
    (pc = "idle" \/ ~running) => ~Truthy(_stop_next_step)

\* C12 witness: a step() that saw a fault has returned and its stop() was called
C12_Witness ==
    /\ pc = "idle"
    /\ stopCalls = 1
    /\ Len(reports) > 0
    /\ _stop_next_step = "False"

\* the code of action t runs in this step of the model
Runs(t) ==
    /\ actions[t].state = "ready"
    /\ actions'[t].state # "ready"

\* C14: between the return of one step() and the entry of the next no action
\* code and no fault handler runs; a dispatch() or a worker completion in
\* that interval only queues a handle
C14_ProgressOnlyInStep ==
    [][(pc = "idle" /\ pc' = "idle") =>
        /\ \A t \in 1..Len(actions) :
             /\ ~Runs(t)
             /\ actions'[t].seg = actions[t].seg
             /\ actions'[t].state # actions[t].state =>
                  (actions[t].state = "blocked" /\ actions'[t].state = "resolving")
        /\ reports' = reports
        /\ _stop_next_step' = _stop_next_step
        /\ \A l \in 1..Len(loops) :
             \/ loops'[l] = loops[l]
             \/ /\ Len(loops'[l]._ready) = Len(loops[l]._ready) + 1
                /\ SubSeq(loops'[l]._ready, 1, Len(loops[l]._ready)) = loops[l]._ready]_vars

\* C14 witness: between two step() calls a worker has completed and an action
\* was dispatched; both are only queued
C14_Witness ==
    /\ pc = "idle"
    /\ \E t, u \in 1..Len(actions) :
        /\ actions[t].state = "resolving"
        /\ actions[u].state = "ready" /\ actions[u].seg = 1
        /\ actions[t].loop = _loop /\ actions[u].loop = _loop
        /\ Len(loops[_loop]._ready) = 2

\* an action of the owned loop that suspended in an earlier step() and whose
\* blocking call has not finished
Hung(t) ==
    /\ t \in 1..Len(actions)
    /\ actions[t].loop = _loop
    /\ actions[t].state = "blocked"
    /\ t \notin genRan

\* C15: with a hung action the host is not deadlocked: step() never blocks and
\* makes one iteration, it leaves the scheduler RUNNING unless an action
\* faulted, and actions dispatched after the hung one still run
C15_HungActionNoDeadlock ==
    /\ [](((\E t \in 1..MaxActions : Hung(t)) /\ pc # "idle") =>
            /\ HostCanProceed
            /\ iterations <= 1
            /\ (pc = "step_check" =>
                  \A u \in entry : actions[u].kind = "ok" => actions[u].state = "done"))
    /\ [][(StepCheck /\ (\E t \in 1..MaxActions : Hung(t)) /\ genFaulted = {}) =>
            (raised' = "none" /\ running' /\ pc' = "idle")]_vars

\* C15 witness: the drain of a step() is over in which an action dispatched
\* after a hung one ran to its end
C15_Witness ==
    /\ pc = "step_check"
    /\ \E t \in 1..MaxActions : \E u \in entry :
        Hung(t) /\ t < u /\ actions[u].kind = "ok" /\ actions[u].state = "done"

\* C16: a start() that raises during its set-up leaves the scheduler as it
\* was before the call, and not running
C16_FailedStartLeavesStopped ==
    [][\A at \in StartFailures : StartFails(at) =>
        /\ ~running'
        /\ _loop' = _loop
        /\ _operator' = _operator
        /\ loops' = loops]_vars

\* C13: an action that was dispatched before a call of stop() (by the host or
\* by step()) makes no progress in the step() that follows it
C13_StopAbandonsActions ==
    [][\A t \in 1..Len(actions) : t <= stoppedUpTo =>
        /\ ~Runs(t)
        /\ actions'[t].seg = actions[t].seg
        /\ actions'[t].state \in {actions[t].state, "lost"}]_vars

\* C17: report() forwards exactly when an operator is stored; no report
\* reaches an operator between a call of stop() and the next start(); and a
\* report reaches the operator of the most recent start() only
C17_ReportsOnlyWhileStarted ==
    /\ [][\A t \in 1..MaxActions :
            /\ _operator # None => Len(report("ERROR", t)) = Len(reports) + 1
            /\ _operator = None => report("ERROR", t) = reports]_vars
    /\ [][reports' # reports =>
            /\ startedLast
            /\ Len(reports') = Len(reports) + 1
            /\ reports'[Len(reports')].adapter = loops[_loop].op]_vars

\* C18: the worker pool of a loop lives for one RUNNING period: the result of
\* work submitted in a period is delivered to the queue of the loop of that
\* period only, and not once stop() has been called on it
C18_PoolLivesOnePeriod ==
    [][\A t \in 1..Len(actions) :
        (actions[t].state = "blocked" /\ actions'[t].state = "resolving") =>
            /\ \A l \in 1..Len(loops) : l # actions[t].loop => loops'[l] = loops[l]
            /\ ~(actions[t].loop = _loop /\ Started /\ lifecycle = "stop")]_vars

\* C20: start() on a running scheduler leaves it running on a new loop with
\* the new operator, the previous loop is left as it was and open, only
\* actions of the owned loop are run afterwards, and a report goes to the
\* operator of the last start()
C20_StartWhileRunningReplaces ==
    /\ [][\A op \in 1..MaxLoops : (Start(op) /\ running) =>
            /\ running'
            /\ _loop' \notin 1..Len(loops)
            /\ \A l \in 1..Len(loops) : loops'[l] = loops[l]
            /\ ~loops'[_loop].closed
            /\ loops'[_loop']._ready = <<>>
            /\ _operator' = op]_vars
    /\ [][\A t \in 1..Len(actions) : Runs(t) => actions[t].loop = _loop]_vars
    /\ [][_loop' # _loop => _loop' = Len(loops) + 1]_vars
    /\ [][reports' # reports =>
            reports'[Len(reports')].adapter = _operator]_vars

\* C20 witness: after a second start() with another operator the first loop
\* still holds its queued action, and a fault on the second loop was reported
\* to the second operator
C20_Witness ==
    /\ pc = "step_check"
    /\ _loop = 2
    /\ prevLifecycle = "start"
    /\ loops[1].handler /\ loops[2].handler
    /\ loops[2].op # loops[1].op
    /\ \E t, u \in 1..Len(actions) :
        /\ actions[t].loop = 1 /\ actions[t].state = "ready"
        /\ actions[u].loop = 2 /\ actions[u].state = "faulted"
    /\ Len(reports) = 1
    /\ reports[1].adapter = loops[2].op

\* the wakeup of action t is in the queue of the owned loop
Queued(t) ==
    \E i \in 1..Len(loops[_loop]._ready) :
        loops[_loop]._ready[i] = Handle("task_step", t)

\* C19: a step() runs at most one segment of an action; an action made ready
\* during the step (a continuation resumed, an action dispatched by a running
\* action) is not run in it but stays queued, and when the drain is over
\* nothing else is left ready, so that the next step() runs it
C19_ReadyWorkDeferred ==
    /\ [][\A t \in 1..Len(actions) :
            Runs(t) => (t \notin genRan /\ t \notin genWoken)]_vars
    /\ [](\A t \in genWoken : actions[t].state = "ready" /\ Queued(t))
    /\ [](pc = "step_check" =>
            \A t \in 1..Len(actions) :
                (actions[t].loop = _loop /\ actions[t].state = "ready") =>
                    t \in genWoken)
    /\ [][StepCheck =>
            \A t \in genWoken :
                /\ actions'[t].state = "ready"
                /\ \E i \in 1..Len(loops'[_loop]._ready) :
                     loops'[_loop]._ready[i] = Handle("task_step", t)]_vars

\* C19 witness: the drain of a step() is over in which an action ran and
\* dispatched another, which is queued and has not run
C19_Witness ==
    /\ pc = "step_check"
    /\ \E t \in genRan : \E u \in genWoken :
        /\ t < u
        /\ actions[t].state = "done"
        /\ actions[u].seg = 1
        /\ actions[u].state = "ready"

====
